---- MODULE Spec2Model ----
(***************************************************************************)
(* Model of cisco_sandbox_vlan_checker.py: one batch run that obtains a    *)
(* token, lists the network devices, fetches every device's VLAN table,    *)
(* keeps the VLANs of the configured range and prints a report.            *)
(*                                                                         *)
(* The controller (the three REST endpoints) is the environment: its       *)
(* answers are fixed in the variable server at the start of a run.  A step *)
(* of the run ends where the program blocks on the network or has printed  *)
(* a line of the report; the operator's interrupt (KeyboardInterrupt) may  *)
(* arrive between any two steps, a pending request included.               *)
(***************************************************************************)
EXTENDS Integers, Sequences, FiniteSets, TLC

VARIABLES
    server,             \* the controller's answers: auth, devices, vlans (per device id)
    vlan_start,         \* configuration: VLAN_START
    vlan_end,           \* configuration: VLAN_END
    pc,                 \* position of the run
    token,              \* check_vlans_in_range: token
    devices,            \* check_vlans_in_range: devices
    idx,                \* position of the for loop over devices (1-based)
    vlans_data,         \* check_vlans_in_range: the entries of vlans_data still to visit
    device_vlans_in_range, \* check_vlans_in_range: device_vlans_in_range
    found_vlans,        \* check_vlans_in_range: found_vlans (insertion-ordered dict)
    devices_checked,    \* check_vlans_in_range: devices_checked
    requests,           \* HTTP requests issued so far, in order
    warnings,           \* warning lines printed so far, in order
    report,             \* the lines print_results has printed so far, in order
    error,              \* what ended the run early ("" while none)
    exit_code           \* process exit status (-1 while running)

vars == <<server, vlan_start, vlan_end, pc, token, devices, idx, vlans_data,
          device_vlans_in_range, found_vlans, devices_checked, requests,
          warnings, report, error, exit_code>>

-----------------------------------------------------------------------------
(* Program constants *)

VLAN_START == 600
VLAN_END == 699
\* print_results: the unused list is printed in full up to this many members
FULL_LIST_LIMIT == 20
\* print_results: unused_vlans[:10]
FIRST_N == 10

(* Bounds of the model *)

\* longest device list the controller returns
MaxDevices == 3
\* longest VLAN list the controller returns for a device
MaxVlans == 3
\* widest small range explored besides the reference range: VLAN_START..VLAN_START+MaxSpan
MaxSpan == 22

-----------------------------------------------------------------------------
(* JSON values as Python sees them after response.json() *)

\* a key that is not in the JSON object (dict.get then yields its default)
Absent == "<absent>"

JInt(n) == [t |-> "int", n |-> n, s |-> <<>>]
\* a JSON string, as its sequence of characters
JStr(chars) == [t |-> "str", n |-> 0, s |-> chars]
\* a finite JSON number with a fraction, in tenths (6995 is 699.5)
JFloat(tenths) == [t |-> "float", n |-> tenths, s |-> <<>>]
\* a JSON number too large for a double (1e999): Python reads float('inf')
JInf == [t |-> "inf", n |-> 0, s |-> <<>>]
JNaN == [t |-> "nan", n |-> 0, s |-> <<>>]
JBool(b) == [t |-> "bool", n |-> IF b THEN 1 ELSE 0, s |-> <<>>]
JNull == [t |-> "null", n |-> 0, s |-> <<>>]
JAbsent == [t |-> "absent", n |-> 0, s |-> <<>>]

\* the ASCII digits; int() also reads the decimal digits of other scripts,
\* which are not among the characters of this model
Digits == <<"0", "1", "2", "3", "4", "5", "6", "7", "8", "9">>
IsDigit(c) == \E d \in 1..10 : Digits[d] = c
DigitVal(c) == (CHOOSE d \in 1..10 : Digits[d] = c) - 1

\* the vertical tab (0x0B), which has no escape in a string of this module
VT == ""

\* the six ASCII characters int() drops at both ends of a str (the Unicode
\* spaces it also drops are not among the characters of this model)
Whitespace == {" ", "\t", "\n", VT, "\f", "\r"}

RECURSIVE StripLeft(_)
StripLeft(s) == IF s # <<>> /\ Head(s) \in Whitespace THEN StripLeft(Tail(s)) ELSE s

RECURSIVE StripRight(_)
StripRight(s) ==
    IF s # <<>> /\ s[Len(s)] \in Whitespace
    THEN StripRight(SubSeq(s, 1, Len(s) - 1)) ELSE s

\* the value of a digit string in which single underscores may separate digits
RECURSIVE DigitsValue(_, _)
DigitsValue(s, acc) ==
    IF s = <<>> THEN acc
    ELSE IF Head(s) = "_" THEN DigitsValue(Tail(s), acc)
    ELSE DigitsValue(Tail(s), 10 * acc + DigitVal(Head(s)))

\* digits, with single underscores between two digits only
WellFormedDigits(digs) ==
    /\ digs # <<>>
    /\ \A i \in 1..Len(digs) : IsDigit(digs[i]) \/ digs[i] = "_"
    /\ IsDigit(digs[1]) /\ IsDigit(digs[Len(digs)])
    /\ \A i \in 1..(Len(digs) - 1) : ~(digs[i] = "_" /\ digs[i + 1] = "_")

NoExc == ""

\* int(str): surrounding whitespace dropped, an optional sign, then digits
ParseInt(chars) ==
    LET body == StripRight(StripLeft(chars))
        signed == body # <<>> /\ Head(body) \in {"+", "-"}
        digs == IF signed THEN Tail(body) ELSE body
    IN  IF ~WellFormedDigits(digs)
        THEN [exc |-> "ValueError", val |-> 0]
        ELSE [exc |-> NoExc,
              val |-> IF signed /\ Head(body) = "-"
                      THEN 0 - DigitsValue(digs, 0) ELSE DigitsValue(digs, 0)]

\* int(float): truncation toward zero
TruncTenths(tenths) ==
    IF tenths >= 0 THEN tenths \div 10 ELSE 0 - ((0 - tenths) \div 10)

\* int(vlan.get('vlanNumber', 0)): the value, or the exception int() raises
IntCoerce(v) ==
    CASE v.t = "absent" -> [exc |-> NoExc, val |-> 0]
      [] v.t = "int"    -> [exc |-> NoExc, val |-> v.n]
      [] v.t = "bool"   -> [exc |-> NoExc, val |-> v.n]
      [] v.t = "float"  -> [exc |-> NoExc, val |-> TruncTenths(v.n)]
      [] v.t = "str"    -> ParseInt(v.s)
      [] v.t = "nan"    -> [exc |-> "ValueError", val |-> 0]
      [] v.t = "inf"    -> [exc |-> "OverflowError", val |-> 0]
      [] OTHER          -> [exc |-> "TypeError", val |-> 0]

\* dict.get(key, default) for a string field
GetOr(field, default) == IF field = Absent THEN default ELSE field

\* Python truth of device.get('id'): None and the empty string are false
Truthy(field) == field # Absent /\ field # ""

-----------------------------------------------------------------------------
(* The three HTTP calls, from the answer on.  Each yields the exception that *)
(* leaves the function (NoExc when it returns) and its return value;        *)
(* get_device_vlans also the warnings it prints and the requests it makes   *)
(* after its first one.                                                     *)

TokenRequest == [call |-> "token", id |-> ""]
DevicesRequest == [call |-> "devices", id |-> ""]
VlanRequest(device_id) == [call |-> "vlan", id |-> device_id]

\* requests raises RequestException on a transport error, raise_for_status on
\* a status of 400 to 599
HttpFailed(resp) == ~resp.net \/ (resp.status >= 400 /\ resp.status < 600)

\* a plausible bug: a body without the Token field is accepted (.get('Token'))
get_token_unchecked ==
    LET resp == server.auth IN
    [exc  |-> IF HttpFailed(resp) THEN "Authentication failed: request" ELSE NoExc,
     value |-> IF HttpFailed(resp) THEN Absent ELSE resp.token]

get_token ==
    LET resp == server.auth IN
    [exc  |-> IF HttpFailed(resp) THEN "Authentication failed: request"
              ELSE IF resp.token = Absent
                   THEN "Authentication failed: Token not found in response"
                   ELSE NoExc,
     value |-> IF HttpFailed(resp) THEN Absent ELSE resp.token]

get_network_devices(tok) ==
    LET resp == server.devices IN
    [exc  |-> IF HttpFailed(resp) THEN "Failed to get network devices" ELSE NoExc,
     value |-> IF HttpFailed(resp) \/ ~resp.has_response THEN <<>> ELSE resp.response]

\* a plausible bug: the request is repeated once after a failure
get_device_vlans_retry(tok, device_id) ==
    LET resp == server.vlans[device_id] IN
    [exc  |-> NoExc,
     value |-> IF HttpFailed(resp) \/ ~resp.has_response THEN <<>> ELSE resp.response,
     more_requests |-> IF HttpFailed(resp) THEN << VlanRequest(device_id) >> ELSE <<>>,
     warns |-> IF HttpFailed(resp) THEN << "vlan_fetch_failed:" \o device_id >> ELSE <<>>]

\* a plausible bug: the RequestException is not caught
get_device_vlans_raise(tok, device_id) ==
    LET resp == server.vlans[device_id] IN
    [exc  |-> IF HttpFailed(resp) THEN "RequestException" ELSE NoExc,
     value |-> IF HttpFailed(resp) \/ ~resp.has_response THEN <<>> ELSE resp.response,
     more_requests |-> <<>>,
     warns |-> <<>>]

get_device_vlans(tok, device_id) ==
    LET resp == server.vlans[device_id] IN
    [exc  |-> NoExc,
     value |-> IF HttpFailed(resp) \/ ~resp.has_response THEN <<>> ELSE resp.response,
     more_requests |-> <<>>,
     warns |-> IF HttpFailed(resp) THEN << "vlan_fetch_failed:" \o device_id >> ELSE <<>>]

-----------------------------------------------------------------------------
(* check_vlans_in_range: the body of the loop over devices *)

\* a plausible bug: the upper bound of the range is not tested
InRangeNoUpper(vlan_id) == vlan_start <= vlan_id

InRange(vlan_id) == vlan_start <= vlan_id /\ vlan_id <= vlan_end

\* the except clause of the inner loop: (ValueError, TypeError)
Caught(exc) == exc \in {"ValueError", "TypeError"}

\* one pass of "for vlan in vlans_data": the list after it, the warning it
\* prints, or the exception that escapes the try
FilterEntry(vlan, in_range, device_name) ==
    LET c == IntCoerce(vlan.vlanNumber) IN
    IF c.exc = NoExc
    THEN LET vlan_id == c.val
             vlan_name == GetOr(vlan.vlanName, "VLAN" \o ToString(vlan_id))
         IN  [exc |-> NoExc,
              vlans |-> IF InRange(vlan_id)
                        THEN Append(in_range, [id |-> vlan_id, name |-> vlan_name])
                        ELSE in_range,
              warns |-> <<>>]
    ELSE IF Caught(c.exc)
         THEN [exc |-> NoExc, vlans |-> in_range,
               warns |-> << "invalid_vlan_number:" \o device_name >>]
         ELSE [exc |-> c.exc, vlans |-> in_range, warns |-> <<>>]

\* f"{device_name} ({device_ip})"
Label(device) ==
    GetOr(device.hostname, "Unknown") \o " (" \o
    GetOr(device.managementIpAddress, "Unknown") \o ")"

HasKey(d, key) == \E i \in 1..Len(d) : d[i].device = key

\* found_vlans[key] = value on an insertion-ordered dict: an existing key keeps
\* its place and gets the new value
DictSet(d, key, value) ==
    IF HasKey(d, key)
    THEN [i \in 1..Len(d) |->
            IF d[i].device = key THEN [device |-> key, vlans |-> value] ELSE d[i]]
    ELSE Append(d, [device |-> key, vlans |-> value])

\* a plausible bug: None is tested instead of truth, so an empty id is fetched
HasIdNotNone(device) == device.id # Absent

HasId(device) == Truthy(device.id)

-----------------------------------------------------------------------------
(* print_results: the lines it prints, one print call each *)

Line(kind, s, n, ids) == [kind |-> kind, s |-> s, n |-> n, ids |-> ids]

RECURSIVE SortedSeq(_)
SortedSeq(S) ==
    IF S = {} THEN <<>>
    ELSE LET m == CHOOSE x \in S : \A y \in S : x <= y
         IN  <<m>> \o SortedSeq(S \ {m})

RECURSIVE SumLens(_)
SumLens(d) == IF d = <<>> THEN 0 ELSE Len(Head(d).vlans) + SumLens(Tail(d))

\* all_found_vlan_ids once the loop over found_vlans is over
AllFoundIds(found) ==
    UNION { {found[i].vlans[j].id : j \in 1..Len(found[i].vlans)} : i \in 1..Len(found) }

\* unused_vlans = sorted(all_range_vlans - all_found_vlan_ids): the ids of the
\* range that were not found, in ascending order
UnusedVlans(found) ==
    LET all_found_vlan_ids == AllFoundIds(found)
        NotFound(vlan_id) == vlan_id \notin all_found_vlan_ids
    IN  SelectSeq([i \in 1..(vlan_end - vlan_start + 1) |-> vlan_start + i - 1], NotFound)

\* lines 136-138
HeaderLines ==
    << Line("rule", "", 0, <<>>),
       Line("title", "", 0, << vlan_start, vlan_end >>),
       Line("rule", "", 0, <<>>) >>

\* lines 147-152 for one entry of found_vlans
DeviceLines(entry) ==
    << Line("device", entry.device, 0, <<>>) >>
    \o [j \in 1..Len(entry.vlans) |->
          Line("vlan", entry.vlans[j].name, entry.vlans[j].id, <<>>)]
    \o << Line("count", "", Len(entry.vlans), <<>>), Line("blank", "", 0, <<>>) >>

RECURSIVE AllDeviceLines(_)
AllDeviceLines(found) ==
    IF found = <<>> THEN <<>>
    ELSE DeviceLines(Head(found)) \o AllDeviceLines(Tail(found))

\* a plausible bug: < instead of <= at the limit of the full listing
AvailableLinesStrict(unused_vlans) ==
    IF unused_vlans = <<>> THEN <<>>
    ELSE << Line("available_count", "", Len(unused_vlans), <<>>),
            IF Len(unused_vlans) < FULL_LIST_LIMIT
            THEN Line("available_ids", "", 0, unused_vlans)
            ELSE Line("first_available", "...", 0, SubSeq(unused_vlans, 1, FIRST_N)) >>

\* lines 164-169: nothing when no id is unused, else the count and either the
\* whole list or its first ten followed by "..."
AvailableLines(unused_vlans) ==
    IF unused_vlans = <<>> THEN <<>>
    ELSE << Line("available_count", "", Len(unused_vlans), <<>>),
            IF Len(unused_vlans) <= FULL_LIST_LIMIT
            THEN Line("available_ids", "", 0, unused_vlans)
            ELSE Line("first_available", "...", 0, SubSeq(unused_vlans, 1, FIRST_N)) >>

\* lines 155-158
SummaryLines(found) ==
    << Line("summary", "", 0, <<>>),
       Line("n_devices", "", Len(found), <<>>),
       Line("total_vlans", "", SumLens(found), <<>>),
       Line("unique_ids", "", 0, SortedSeq(AllFoundIds(found))) >>

\* every line of print_results(found), in order
ReportLines(found) ==
    IF found # <<>>
    THEN HeaderLines
         \o << Line("found_intro", "", 0, << vlan_start, vlan_end >>) >>
         \o AllDeviceLines(found)
         \o SummaryLines(found)
         \o AvailableLines(UnusedVlans(found))
    ELSE HeaderLines
         \o << Line("none_found", "", 0, << vlan_start, vlan_end >>),
               Line("all_available", "", 0, <<>>) >>

-----------------------------------------------------------------------------
(* main: how a run ends *)

\* both except clauses of main return 1
ExitCodeOf(exc) == 1

\* an exception leaves the try block of main and its except clause is entered
Fatal(exc) ==
    /\ pc' = "except"
    /\ error' = exc
    /\ UNCHANGED exit_code

-----------------------------------------------------------------------------
(* The controller's answers and the configurations a run starts from *)

Ok200(list) == [net |-> TRUE, status |-> 200, has_response |-> TRUE, response |-> list]
\* a 200 whose JSON body has no "response" field
NoResponseField == [net |-> TRUE, status |-> 200, has_response |-> FALSE, response |-> <<>>]
HttpError(code) == [net |-> TRUE, status |-> code, has_response |-> FALSE, response |-> <<>>]
\* timeout, refused connection: no HTTP status at all
TransportError == [net |-> FALSE, status |-> 0, has_response |-> FALSE, response |-> <<>>]

AuthOk == [net |-> TRUE, status |-> 200, token |-> "tok"]
AuthFailures ==
    { [net |-> FALSE, status |-> 0, token |-> Absent],
      [net |-> TRUE, status |-> 401, token |-> Absent],
      [net |-> TRUE, status |-> 200, token |-> Absent] }

Device(id, hostname, ip) ==
    [id |-> id, hostname |-> hostname, managementIpAddress |-> ip, type |-> "switch"]

Vlan(number, name) == [vlanNumber |-> number, vlanName |-> name]

\* two devices with one hostname and address, a device without address, a
\* device without id, a device whose id is the empty string
DeviceShapes ==
    { Device("d1", "sw1", "10.0.0.1"),
      Device("d2", "sw1", "10.0.0.1"),
      Device("d3", "sw2", Absent),
      Device(Absent, "sw3", "10.0.0.3"),
      Device("", Absent, "10.0.0.4") }

SeqsUpTo(S, n) == UNION { [1..k -> S] : k \in 0..n }

\* the ids a VLAN request can be made for: every id of the list that is a string
IdsOf(list) == {list[i].id : i \in 1..Len(list)} \ {Absent}

\* answers to a VLAN request in the runs that vary the device list
VlanAnswers(s, e) ==
    { TransportError,
      HttpError(500),
      Ok200(<< Vlan(JInt(s), "Voice") >>),
      Ok200(<< Vlan(JInt(e), Absent), Vlan(JInt(e + 1), "Over") >>) }

\* the controller answers a request for the empty id with 404
VlanTables(list, answers) ==
    { [id \in IdsOf(list) |-> IF id = "" THEN HttpError(404) ELSE f[id]] :
        f \in [IdsOf(list) \ {""} -> answers] }

World(s, e, auth, devs, vlans) ==
    [start |-> s, end |-> e,
     server |-> [auth |-> auth, devices |-> devs, vlans |-> vlans]]

\* the controller addresses a device by its id, so no id appears twice in a
\* list it returns (the program itself does not test this)
UniqueIds(list) ==
    \A i, j \in 1..Len(list) :
        (i # j /\ list[i].id # Absent) => list[i].id # list[j].id

\* every device list up to MaxDevices, every combination of answers
PipelineWorlds ==
    UNION { { World(VLAN_START, VLAN_END, AuthOk, Ok200(list), v) :
                v \in VlanTables(list, VlanAnswers(VLAN_START, VLAN_END)) } :
            list \in {l \in SeqsUpTo(DeviceShapes, MaxDevices) : UniqueIds(l)} }

OneDevice == << Device("d1", "sw1", "10.0.0.1") >>
OneVlanTable(s) == [id \in {"d1"} |-> Ok200(<< Vlan(JInt(s), "Voice") >>)]

\* authentication or device enumeration fails, or a list field is missing
FailureWorlds ==
    { World(VLAN_START, VLAN_END, a, Ok200(OneDevice), OneVlanTable(VLAN_START)) :
        a \in AuthFailures }
    \cup
    { World(VLAN_START, VLAN_END, AuthOk, d, OneVlanTable(VLAN_START)) :
        d \in {TransportError, HttpError(500), NoResponseField} }
    \cup
    { World(VLAN_START, VLAN_END, AuthOk, Ok200(OneDevice),
            [id \in {"d1"} |-> NoResponseField]) }

\* the shapes a vlanNumber arrives in
VlanEntries(s, e) ==
    { Vlan(JInt(s), "Voice"),
      Vlan(JInt(e), Absent),
      Vlan(JInt(e + 1), "Over"),
      Vlan(JStr(<<VT, "\t", "6", "_", "5", "0", "\n">>), "Data"),
      Vlan(JStr(<<"6", ".", "5">>), "Bad"),
      Vlan(JNull, "Null"),
      Vlan(JInf, "Huge"),
      Vlan(JNaN, "NaN"),
      Vlan(JBool(TRUE), "True"),
      Vlan(JFloat(10 * e + 5), Absent),
      Vlan(JAbsent, "NoNumber") }

TwoDevices == << Device("d1", "sw1", "10.0.0.1"), Device("d3", "sw2", Absent) >>

\* every VLAN list up to MaxVlans for the first of two devices
FilterWorlds ==
    { World(VLAN_START, VLAN_END, AuthOk, Ok200(TwoDevices),
            [id \in {"d1", "d3"} |->
                IF id = "d1" THEN Ok200(l)
                ELSE Ok200(<< Vlan(JInt(VLAN_END), Absent) >>)]) :
        l \in SeqsUpTo(VlanEntries(VLAN_START, VLAN_END), MaxVlans) }

\* VLAN lists of one device in the runs that vary the range
ReportLists(s, e) ==
    { << Vlan(JInt(s), "Voice") >>,
      << Vlan(JInt(s), "Voice"), Vlan(JInt(e), Absent) >>,
      << Vlan(JInt(e + 1), "Over") >> }

\* every range VLAN_START..VLAN_START+k up to MaxSpan
ReportWorlds ==
    UNION { { World(VLAN_START, VLAN_START + k, AuthOk, Ok200(OneDevice),
                    [id \in {"d1"} |-> Ok200(l)]) :
                l \in ReportLists(VLAN_START, VLAN_START + k) } :
            k \in 0..MaxSpan }

\* a status outside 400..599 is no error to raise_for_status: the body is read
OddStatus(list) == [net |-> TRUE, status |-> 600, has_response |-> TRUE, response |-> list]

OddStatusWorlds ==
    { World(VLAN_START, VLAN_END, [net |-> TRUE, status |-> 600, token |-> "tok"],
            Ok200(OneDevice), OneVlanTable(VLAN_START)),
      World(VLAN_START, VLAN_END, AuthOk, OddStatus(OneDevice), OneVlanTable(VLAN_START)),
      World(VLAN_START, VLAN_END, AuthOk, Ok200(OneDevice),
            [id \in {"d1"} |-> OddStatus(<< Vlan(JInt(VLAN_START), "Voice") >>)]) }

Worlds ==
    PipelineWorlds \cup FailureWorlds \cup FilterWorlds \cup ReportWorlds
    \cup OddStatusWorlds


\* the state main starts in, for the configurations and controllers of W
InitIn(W) ==
    /\ \E w \in W :
        /\ server = w.server
        /\ vlan_start = w.start
        /\ vlan_end = w.end
    /\ pc = "main"
    /\ token = Absent
    /\ devices = <<>>
    /\ idx = 1
    /\ vlans_data = <<>>
    /\ device_vlans_in_range = <<>>
    /\ found_vlans = <<>>
    /\ devices_checked = 0
    /\ requests = <<>>
    /\ warnings = <<>>
    /\ report = <<>>
    /\ error = NoExc
    /\ exit_code = -1

Init == InitIn(Worlds)

-----------------------------------------------------------------------------
(* The run, step by step *)

\* the positions inside main's try block
InTry == {"get_token", "await_token", "get_devices", "await_devices", "loop",
          "get_vlans", "await_vlans", "filter", "print_results"}

\* the positions of main outside the try block: the banner, the body of an
\* except clause, the final return
OutsideTry == {"main", "except", "return"}

\* main prints its banner and enters the try block
MainBanner ==
    /\ pc = "main"
    /\ pc' = "get_token"
    /\ UNCHANGED <<server, vlan_start, vlan_end, token, devices, idx, vlans_data,
                   device_vlans_in_range, found_vlans, devices_checked, requests,
                   warnings, report, error, exit_code>>

\* check_vlans_in_range calls get_token, which posts and waits for the answer
CallGetToken ==
    /\ pc = "get_token"
    /\ requests' = Append(requests, TokenRequest)
    /\ pc' = "await_token"
    /\ UNCHANGED <<server, vlan_start, vlan_end, token, devices, idx, vlans_data,
                   device_vlans_in_range, found_vlans, devices_checked,
                   warnings, report, error, exit_code>>

\* the answer to the token request: token = get_token(), or the exception
\* reaches main
GetToken ==
    /\ pc = "await_token"
    /\ LET r == get_token IN
        IF r.exc # NoExc
        THEN /\ Fatal(r.exc)
             /\ UNCHANGED token
        ELSE /\ token' = r.value
             /\ pc' = "get_devices"
             /\ UNCHANGED <<error, exit_code>>
    /\ UNCHANGED <<server, vlan_start, vlan_end, devices, idx, vlans_data,
                   device_vlans_in_range, found_vlans, devices_checked, requests,
                   warnings, report>>

\* get_network_devices sends its request and waits
CallGetNetworkDevices ==
    /\ pc = "get_devices"
    /\ requests' = Append(requests, DevicesRequest)
    /\ pc' = "await_devices"
    /\ UNCHANGED <<server, vlan_start, vlan_end, token, devices, idx, vlans_data,
                   device_vlans_in_range, found_vlans, devices_checked,
                   warnings, report, error, exit_code>>

\* the answer: devices = get_network_devices(token), found_vlans = {},
\* devices_checked = 0
GetNetworkDevices ==
    /\ pc = "await_devices"
    /\ LET r == get_network_devices(token) IN
        IF r.exc # NoExc
        THEN /\ Fatal(r.exc)
             /\ UNCHANGED <<devices, idx>>
        ELSE /\ devices' = r.value
             /\ idx' = 1
             /\ pc' = "loop"
             /\ UNCHANGED <<error, exit_code>>
    /\ UNCHANGED <<server, vlan_start, vlan_end, token, vlans_data,
                   device_vlans_in_range, found_vlans, devices_checked, requests,
                   warnings, report>>

\* the head of one pass of "for device in devices": a device without id is
\* skipped; otherwise the device is announced and the counter raised
CheckDevice ==
    /\ pc = "loop"
    /\ idx <= Len(devices)
    /\ LET device == devices[idx]
           device_name == GetOr(device.hostname, "Unknown")
       IN  IF ~HasId(device)
           THEN /\ warnings' = Append(warnings, "no_device_id:" \o device_name)
                /\ idx' = idx + 1
                /\ UNCHANGED <<pc, devices_checked>>
           ELSE /\ devices_checked' = devices_checked + 1
                /\ pc' = "get_vlans"
                /\ UNCHANGED <<warnings, idx>>
    /\ UNCHANGED <<server, vlan_start, vlan_end, token, devices, vlans_data,
                   device_vlans_in_range, found_vlans, requests, report, error,
                   exit_code>>

\* get_device_vlans sends its request and waits
CallGetDeviceVlans ==
    /\ pc = "get_vlans"
    /\ requests' = Append(requests, VlanRequest(devices[idx].id))
    /\ pc' = "await_vlans"
    /\ UNCHANGED <<server, vlan_start, vlan_end, token, devices, idx, vlans_data,
                   device_vlans_in_range, found_vlans, devices_checked,
                   warnings, report, error, exit_code>>

\* the answer: vlans_data = get_device_vlans(token, device_id) and
\* device_vlans_in_range = []
GetDeviceVlans ==
    /\ pc = "await_vlans"
    /\ LET r == get_device_vlans(token, devices[idx].id) IN
        /\ requests' = requests \o r.more_requests
        /\ IF r.exc # NoExc
           THEN /\ Fatal(r.exc)
                /\ UNCHANGED <<vlans_data, device_vlans_in_range, warnings>>
           ELSE /\ vlans_data' = r.value
                /\ device_vlans_in_range' = <<>>
                /\ warnings' = warnings \o r.warns
                /\ pc' = "filter"
                /\ UNCHANGED <<error, exit_code>>
    /\ UNCHANGED <<server, vlan_start, vlan_end, token, devices, idx,
                   found_vlans, devices_checked, report>>

\* one pass of "for vlan in vlans_data"
FilterVlan ==
    /\ pc = "filter"
    /\ vlans_data # <<>>
    /\ LET device_name == GetOr(devices[idx].hostname, "Unknown")
           r == FilterEntry(Head(vlans_data), device_vlans_in_range, device_name)
       IN  IF r.exc # NoExc
           THEN /\ Fatal(r.exc)
                /\ UNCHANGED <<vlans_data, device_vlans_in_range, warnings>>
           ELSE /\ vlans_data' = Tail(vlans_data)
                /\ device_vlans_in_range' = r.vlans
                /\ warnings' = warnings \o r.warns
                /\ UNCHANGED <<pc, error, exit_code>>
    /\ UNCHANGED <<server, vlan_start, vlan_end, token, devices, idx,
                   found_vlans, devices_checked, requests, report>>

\* after the inner loop: a non-empty list is stored under the device's label
RecordDevice ==
    /\ pc = "filter"
    /\ vlans_data = <<>>
    /\ found_vlans' = IF device_vlans_in_range # <<>>
                      THEN DictSet(found_vlans, Label(devices[idx]), device_vlans_in_range)
                      ELSE found_vlans
    /\ idx' = idx + 1
    /\ pc' = "loop"
    /\ UNCHANGED <<server, vlan_start, vlan_end, token, devices, vlans_data,
                   device_vlans_in_range, devices_checked, requests, warnings,
                   report, error, exit_code>>

\* the loop is over: check_vlans_in_range returns found_vlans and main calls
\* print_results
ReturnFound ==
    /\ pc = "loop"
    /\ idx > Len(devices)
    /\ pc' = "print_results"
    /\ UNCHANGED <<server, vlan_start, vlan_end, token, devices, idx, vlans_data,
                   device_vlans_in_range, found_vlans, devices_checked, requests,
                   warnings, report, error, exit_code>>

\* print_results prints its next line
PrintLine ==
    /\ pc = "print_results"
    /\ Len(report) < Len(ReportLines(found_vlans))
    /\ report' = Append(report, ReportLines(found_vlans)[Len(report) + 1])
    /\ UNCHANGED <<server, vlan_start, vlan_end, pc, token, devices, idx,
                   vlans_data, device_vlans_in_range, found_vlans,
                   devices_checked, requests, warnings, error, exit_code>>

\* print_results returns and main leaves the try block
ReturnFromPrint ==
    /\ pc = "print_results"
    /\ Len(report) = Len(ReportLines(found_vlans))
    /\ pc' = "return"
    /\ UNCHANGED <<server, vlan_start, vlan_end, token, devices, idx, vlans_data,
                   device_vlans_in_range, found_vlans, devices_checked, requests,
                   warnings, report, error, exit_code>>

\* return 0
MainReturn ==
    /\ pc = "return"
    /\ pc' = "exit"
    /\ exit_code' = 0
    /\ UNCHANGED <<server, vlan_start, vlan_end, token, devices, idx, vlans_data,
                   device_vlans_in_range, found_vlans, devices_checked, requests,
                   warnings, report, error>>

\* the except clause has printed its message: return 1
HandlerReturn ==
    /\ pc = "except"
    /\ pc' = "exit"
    /\ exit_code' = ExitCodeOf(error)
    /\ UNCHANGED <<server, vlan_start, vlan_end, token, devices, idx, vlans_data,
                   device_vlans_in_range, found_vlans, devices_checked, requests,
                   warnings, report, error>>

\* SIGINT: inside the try block the KeyboardInterrupt clause of main is
\* entered; outside of it, the except clauses included, the KeyboardInterrupt
\* is not caught and the interpreter ends with 128 + SIGINT
Interrupt ==
    /\ pc \in InTry \cup OutsideTry
    /\ IF pc \in OutsideTry
       THEN /\ pc' = "exit"
            /\ error' = "Traceback: KeyboardInterrupt"
            /\ exit_code' = 128 + 2
       ELSE Fatal("KeyboardInterrupt")
    /\ UNCHANGED <<server, vlan_start, vlan_end, token, devices, idx, vlans_data,
                   device_vlans_in_range, found_vlans, devices_checked, requests,
                   warnings, report>>

Next ==
    \/ MainBanner
    \/ CallGetToken
    \/ GetToken
    \/ CallGetNetworkDevices
    \/ GetNetworkDevices
    \/ CheckDevice
    \/ CallGetDeviceVlans
    \/ GetDeviceVlans
    \/ FilterVlan
    \/ RecordDevice
    \/ ReturnFound
    \/ PrintLine
    \/ ReturnFromPrint
    \/ MainReturn
    \/ HandlerReturn
    \/ Interrupt

Spec == Init /\ [][Next]_vars

\* the steps of the program itself
Advance ==
    \/ MainBanner
    \/ CallGetToken
    \/ GetToken
    \/ CallGetNetworkDevices
    \/ GetNetworkDevices
    \/ CheckDevice
    \/ CallGetDeviceVlans
    \/ GetDeviceVlans
    \/ FilterVlan
    \/ RecordDevice
    \/ ReturnFound
    \/ PrintLine
    \/ ReturnFromPrint
    \/ MainReturn
    \/ HandlerReturn

\* the interpreter runs the one thread to its end and every request is
\* answered or fails within its timeout: the program always takes its next
\* step; the operator's interrupt may come or not.  The runs are those in
\* which one of the first two requests fails or one device is checked.
FairSpec ==
    /\ InitIn(FailureWorlds \cup OddStatusWorlds \cup ReportWorlds)
    /\ [][Next]_vars
    /\ WF_vars(Advance)

TypeOK ==
    /\ pc \in InTry \cup OutsideTry \cup {"exit"}
    /\ idx \in 1..(Len(devices) + 1)
    /\ devices_checked \in 0..Len(devices)
    /\ exit_code \in {-1, 0, 1, 130}
    /\ (pc = "exit") = (exit_code # -1)
    /\ Len(report) <= Len(ReportLines(found_vlans))

-----------------------------------------------------------------------------
(* Vocabulary of the properties *)

IsPrefix(s, t) == Len(s) <= Len(t) /\ SubSeq(t, 1, Len(s)) = s

SeqToSet(s) == {s[i] : i \in 1..Len(s)}

\* check_vlans_in_range has returned its FindingSet
Returned == pc \in {"print_results", "return"} \/ exit_code = 0

\* the run is between two devices, or past the last one
BetweenDevices == pc = "loop" \/ Returned

\* the run was ended by the operator's interrupt
Interrupted == error \in {"KeyboardInterrupt", "Traceback: KeyboardInterrupt"}

\* an exception that main reports as an error has left the try block
ErrorRaised == pc \in {"except", "exit"} /\ error # NoExc /\ ~Interrupted

\* the run was ended by such an exception
EndedByError == pc = "exit" /\ ErrorRaised

\* the controller's answer to the VLAN request for device number k
AnswerFor(k) == server.vlans[devices[k].id]

Failure(answer) == ~answer.net \/ answer.status \in 400..599

FetchFails(k) == Failure(AnswerFor(k))

\* the VLAN list device number k gets: empty after a failed fetch
ListFor(k) ==
    IF FetchFails(k) \/ ~AnswerFor(k).has_response THEN <<>> ELSE AnswerFor(k).response

\* a device the loop queries: its id is a non-empty string
Queried(k) == devices[k].id \notin {Absent, ""}

Coercible(vlan) == IntCoerce(vlan.vlanNumber).exc = NoExc

WithinRange(v) == vlan_start <= v /\ v <= vlan_end

Matching(vlan) == Coercible(vlan) /\ WithinRange(IntCoerce(vlan.vlanNumber).val)

\* the entries of a list that coerce to an integer of the range, as recorded
MatchesOf(list) ==
    LET kept == SelectSeq(list, Matching) IN
    [j \in 1..Len(kept) |->
        LET v == IntCoerce(kept[j].vlanNumber).val IN
        [id |-> v,
         name |-> IF kept[j].vlanName = Absent THEN "VLAN" \o ToString(v)
                  ELSE kept[j].vlanName]]

\* what device number k has to contribute
ContributionOf(k) == IF Queried(k) THEN MatchesOf(ListFor(k)) ELSE <<>>

\* the FindingSet built from the devices whose numbers are listed in ks
RECURSIVE FindingSetOf(_)
FindingSetOf(ks) ==
    IF ks = <<>> THEN <<>>
    ELSE LET k == ks[Len(ks)]
             before == FindingSetOf(SubSeq(ks, 1, Len(ks) - 1))
         IN  IF ContributionOf(k) # <<>>
             THEN DictSet(before, Label(devices[k]), ContributionOf(k))
             ELSE before

\* the numbers of the devices already dealt with, in list order
Done == [k \in 1..(idx - 1) |-> k]

FindingsOf(label) ==
    IF HasKey(found_vlans, label)
    THEN (CHOOSE e \in SeqToSet(found_vlans) : e.device = label).vlans
    ELSE <<>>

AuthFailed == Failure(server.auth) \/ server.auth.token = Absent

EnumerationFailed == Failure(server.devices)

RECURSIVE VlanRequestsFor(_)
VlanRequestsFor(list) ==
    IF list = <<>> THEN <<>>
    ELSE (IF Head(list).id \notin {Absent, ""}
          THEN << [call |-> "vlan", id |-> Head(list).id] >> ELSE <<>>)
         \o VlanRequestsFor(Tail(list))

\* the requests of a run that nothing cuts short
AllRequests ==
    IF AuthFailed THEN << TokenRequest >>
    ELSE IF EnumerationFailed THEN << TokenRequest, DevicesRequest >>
    ELSE << TokenRequest, DevicesRequest >>
         \o VlanRequestsFor(IF server.devices.has_response
                            THEN server.devices.response ELSE <<>>)

\* the printed lines of one kind
LinesOf(kind) == LET OfKind(l) == l.kind = kind IN SelectSeq(report, OfKind)

\* print_results has printed the whole report of a non-empty FindingSet
FoundReportPrinted ==
    Returned /\ found_vlans # <<>> /\ report = ReportLines(found_vlans)

-----------------------------------------------------------------------------
(* C1: once check_vlans_in_range has returned, for every queried device D  *)
(* and every entry returned for D whose number coerces to an integer v, an *)
(* entry with id v is in the findings under D's label exactly when v lies  *)
(* in the configured range; for every device list, shared labels included. *)
C1_EntryInFindingsIffInRange ==
    Returned =>
        \A k \in 1..Len(devices) :
            Queried(k) =>
                \A j \in 1..Len(ListFor(k)) :
                    LET c == IntCoerce(ListFor(k)[j].vlanNumber) IN
                    c.exc = NoExc =>
                        ((\E f \in SeqToSet(FindingsOf(Label(devices[k]))) : f.id = c.val)
                         <=> WithinRange(c.val))

(* C2: once print_results has computed them (a non-empty FindingSet, the   *)
(* line of unique ids printed), the ids it reports as found and the ids it *)
(* holds as unused partition the configured range: their union is the      *)
(* range and they have no member in common.                                *)
C2_FoundAndUnusedPartitionRange ==
    (Returned /\ LinesOf("unique_ids") # <<>>) =>
        LET found_ids == SeqToSet(LinesOf("unique_ids")[1].ids)
            unused_ids == SeqToSet(UnusedVlans(found_vlans))
        IN  /\ found_ids \cup unused_ids = vlan_start..vlan_end
            /\ found_ids \cap unused_ids = {}

C2_Witness ==
    /\ FoundReportPrinted
    /\ Len(LinesOf("unique_ids")[1].ids) >= 2
    /\ UnusedVlans(found_vlans) # <<>>
    /\ \E k \in 1..Len(devices) :
         Queried(k) /\ \E j \in 1..Len(ListFor(k)) :
            LET c == IntCoerce(ListFor(k)[j].vlanNumber) IN
            c.exc = NoExc /\ c.val > vlan_end

\* authentication fails in the sense of the claim: transport error, a status
\* that is not 2xx, or a body without the token field
AuthFailedAsClaimed ==
    \/ ~server.auth.net
    \/ server.auth.status \notin 200..299
    \/ server.auth.token = Absent

(* C3, as claimed: when authentication fails (transport error, a status    *)
(* that is not 2xx, or a body without the token field) no request other    *)
(* than the token request is ever issued and the run terminates with exit  *)
(* code 1.                                                                 *)
C3_Claim ==
    /\ [](AuthFailedAsClaimed => IsPrefix(requests, << TokenRequest >>))
    /\ (AuthFailedAsClaimed ~> (pc = "exit" /\ exit_code = 1))

(* C3, amended: when authentication fails (transport error, a status of    *)
(* 400 to 599, or a body without the token field) the run never gets past  *)
(* the token request: no other request is ever issued, no token is held,   *)
(* nothing is reported and no run ends with 0; every such run terminates,  *)
(* and unless the operator's interrupt ends it, it ends with exit code 1   *)
(* after exactly the token request.                                        *)
C3_AuthFailureEndsRun ==
    /\ [](AuthFailed =>
            /\ pc \in {"main", "get_token", "await_token", "except", "exit"}
            /\ IsPrefix(requests, << TokenRequest >>)
            /\ token = Absent
            /\ report = <<>>
            /\ exit_code # 0
            /\ ((pc = "exit" /\ ~Interrupted) =>
                    exit_code = 1 /\ requests = << TokenRequest >> /\ error # NoExc))
    /\ (AuthFailed ~> (pc = "exit" /\ (exit_code = 1 \/ Interrupted)))

C3_Witness ==
    /\ server.auth.net /\ server.auth.status = 200 /\ server.auth.token = Absent
    /\ EndedByError
    /\ exit_code = 1
    /\ requests = << TokenRequest >>

(* C4: a failed VLAN fetch never ends the run, the device's list is then   *)
(* empty, and between two devices and at return the FindingSet is the one  *)
(* built from the device list without the devices whose fetch failed.      *)
C4_FetchFailureIsSkipped ==
    /\ ((pc = "filter" /\ FetchFails(idx)) =>
            vlans_data = <<>> /\ device_vlans_in_range = <<>>)
    /\ ((ErrorRaised /\ Len(requests) >= 3) => ~FetchFails(idx))
    /\ (BetweenDevices =>
            LET Succeeded(k) == ~(Queried(k) /\ FetchFails(k)) IN
            found_vlans = FindingSetOf(SelectSeq(Done, Succeeded)))

C4_Witness ==
    /\ Returned
    /\ \E k \in 1..Len(devices) :
         /\ Queried(k) /\ FetchFails(k)
         /\ ~HasKey(found_vlans, Label(devices[k]))
         /\ \E m \in (k + 1)..Len(devices) :
              Queried(m) /\ HasKey(found_vlans, Label(devices[m]))

(* C5: no VLAN request is made for a device without identifier (none, or   *)
(* the empty string), the run is never ended at such a device, and between *)
(* two devices and at return the number of devices checked and the         *)
(* FindingSet are those of the device list without the devices that lack   *)
(* an identifier.                                                          *)
C5_DeviceWithoutIdIsSkipped ==
    /\ \A i \in 1..Len(requests) :
          requests[i].call = "vlan" => requests[i].id \notin {Absent, ""}
    /\ (pc \in {"get_vlans", "await_vlans", "filter"} => Queried(idx))
    /\ ((ErrorRaised /\ Len(requests) >= 3) => Queried(idx))
    /\ (BetweenDevices =>
            /\ devices_checked = Cardinality({k \in 1..(idx - 1) : Queried(k)})
            /\ found_vlans = FindingSetOf(SelectSeq(Done, Queried)))

C5_Witness ==
    /\ Returned
    /\ \E k \in 1..Len(devices) :
         /\ ~Queried(k)
         /\ \E m \in (k + 1)..Len(devices) :
              Queried(m) /\ HasKey(found_vlans, Label(devices[m]))
    /\ devices_checked < Len(devices)

(* C6: at the end of a run the exit code is 0 exactly when authentication  *)
(* and enumeration succeeded and the report was printed, it is 1 after any *)
(* fatal error or interrupt, and with exit code 1 nothing of the report    *)
(* has been printed.                                                       *)
C6_Claim ==
    pc = "exit" =>
        /\ (exit_code = 0 <=>
              (/\ ~AuthFailed /\ ~EnumerationFailed
               /\ report = ReportLines(found_vlans)))
        /\ (error # NoExc => exit_code = 1)
        /\ (exit_code = 1 => report = <<>>)

(* C7, as claimed: a report of a non-empty FindingSet lists the unused ids *)
(* of the range in full when there are at most 20 of them, none included,  *)
(* and otherwise lists the 10 smallest followed by an ellipsis.            *)
C7_Claim ==
    FoundReportPrinted =>
        LET unused == SortedSeq((vlan_start..vlan_end) \ AllFoundIds(found_vlans)) IN
        IF Len(unused) <= FULL_LIST_LIMIT
        THEN /\ Len(LinesOf("available_ids")) = 1
             /\ LinesOf("available_ids")[1].ids = unused
             /\ LinesOf("first_available") = <<>>
        ELSE /\ Len(LinesOf("first_available")) = 1
             /\ LinesOf("first_available")[1].ids = SubSeq(unused, 1, FIRST_N)
             /\ LinesOf("available_ids") = <<>>

(* C7, amended: a report of a non-empty FindingSet prints nothing about    *)
(* available ids when no id of the range is unused, the count and the      *)
(* complete list when 1 to 20 are unused, and the count and the 10         *)
(* smallest followed by an ellipsis when more than 20 are.                 *)
C7_AvailableListing ==
    FoundReportPrinted =>
        LET unused_set == (vlan_start..vlan_end) \ AllFoundIds(found_vlans)
            n == Cardinality(unused_set)
            counts == LinesOf("available_count")
            full == LinesOf("available_ids")
            first == LinesOf("first_available")
        IN  /\ (n = 0 => counts = <<>> /\ full = <<>> /\ first = <<>>)
            /\ (n \in 1..FULL_LIST_LIMIT =>
                  /\ Len(counts) = 1 /\ counts[1].n = n
                  /\ Len(full) = 1 /\ first = <<>>
                  /\ SeqToSet(full[1].ids) = unused_set /\ Len(full[1].ids) = n
                  /\ \A i \in 1..(n - 1) : full[1].ids[i] < full[1].ids[i + 1])
            /\ (n > FULL_LIST_LIMIT =>
                  /\ Len(counts) = 1 /\ counts[1].n = n
                  /\ Len(first) = 1 /\ full = <<>>
                  /\ first[1].s = "..."
                  /\ Len(first[1].ids) = FIRST_N
                  /\ SeqToSet(first[1].ids) \subseteq unused_set
                  /\ \A x \in unused_set \ SeqToSet(first[1].ids) :
                        \A y \in SeqToSet(first[1].ids) : y < x
                  /\ \A i \in 1..(FIRST_N - 1) : first[1].ids[i] < first[1].ids[i + 1])

C7_Witness ==
    /\ FoundReportPrinted
    /\ (vlan_start..vlan_end) \ AllFoundIds(found_vlans) = {}
    /\ LinesOf("available_count") = <<>>

(* C8: once check_vlans_in_range has returned, no value of the FindingSet  *)
(* is empty, every queried device with at least one VLAN in range is       *)
(* recorded under its label with exactly its own matching entries, and the *)
(* number of FindingSet entries is the number of such devices.             *)
C8_FindingSetHoldsEveryDevice ==
    Returned =>
        LET matching == {k \in 1..Len(devices) : ContributionOf(k) # <<>>}
        IN  /\ \A i \in 1..Len(found_vlans) : found_vlans[i].vlans # <<>>
            /\ \A k \in matching :
                  /\ HasKey(found_vlans, Label(devices[k]))
                  /\ FindingsOf(Label(devices[k])) = ContributionOf(k)
            /\ Len(found_vlans) = Cardinality(matching)

(* C9: the requests of a run are, in this order, the token request, the    *)
(* device-list request and one VLAN request per device with an identifier  *)
(* in device-list order, none of them twice; the run is at the step the    *)
(* requests made so far call for, and every request has been made when the *)
(* report starts.                                                          *)
C9_RequestsInOrderOnce ==
    /\ IsPrefix(requests, AllRequests)
    /\ (pc \in {"main", "get_token"} => requests = <<>>)
    /\ (pc \in {"await_token", "get_devices"} => requests = << TokenRequest >>)
    /\ (pc = "await_devices" => requests = << TokenRequest, DevicesRequest >>)
    /\ (pc \in {"loop", "get_vlans"} =>
          requests = << TokenRequest, DevicesRequest >>
                     \o VlanRequestsFor(SubSeq(devices, 1, idx - 1)))
    /\ (pc \in {"await_vlans", "filter"} =>
          requests = << TokenRequest, DevicesRequest >>
                     \o VlanRequestsFor(SubSeq(devices, 1, idx)))
    /\ ((Returned \/ report # <<>>) => requests = AllRequests)

C9_Witness ==
    /\ report # <<>>
    /\ Len(requests) = 4
    /\ requests[3].id # requests[4].id
    /\ \E k \in 1..Len(devices) : Queried(k) /\ FetchFails(k)
    /\ \E k \in 1..Len(devices) : ~Queried(k)

(* C10: no vlanNumber of a device's list ends the run, and between two     *)
(* devices and at return the FindingSet is the one built from the lists    *)
(* without the entries whose vlanNumber cannot be coerced to an integer.   *)
C10_MalformedEntryIsDropped ==
    /\ (Len(requests) >= 3 => ~ErrorRaised)
    /\ (BetweenDevices => found_vlans = FindingSetOf(Done))

====
